---- MODULE Spec2Model ----
(***************************************************************************)
(* Document-processing pipeline of IDP-AWS: the S3 event handler           *)
(* (Ingestion Gatekeeper), the upload handler, the SQS queue and its       *)
(* consumer, and the processing handler (Extraction Worker), all racing    *)
(* against one DynamoDB table.  Every awaited SDK call is one step.        *)
(***************************************************************************)
EXTENDS Integers, Sequences, FiniteSets, Bags, TLC

(* ---------------------------- bounds ---------------------------------- *)
\* Handler invocations started in one behaviour, and how many of them may
\* be S3 signals, upload requests and worker executions.
MaxInvocations == 3
MaxSignals == 2
MaxUploads == 1
MaxExecs == 2

(* --------------------------- input sets -------------------------------- *)
\* Raw object keys of S3 notifications, as sequences of characters/tokens.
\* "+" and "%2F" are URL-encoded forms; "%" alone is a malformed escape.
RawKeys ==
  { <<"uploads", "/", "direct", "/", "d1", "/", "f.pdf">>,
    <<"uploads", "/", "direct", "/", "d1", "/", "g", "+", "h.pdf">> }

FileNames == { <<"f.pdf">>, <<>> }
ContentTypes == { "application/pdf", "" }
ErrorMessages == { "ServiceError", "" }

(* --------------------------- pure helpers ------------------------------ *)
\* decodeURIComponent(key.replace(/\+/g, " ")): "+" becomes a space, an
\* escape is decoded, every other character is kept.
decodeToken(t) ==
  IF t = "+" THEN " " ELSE IF t = "%2F" THEN "/" ELSE IF t = "%20" THEN " " ELSE t

malformed(key) == \E i \in 1..Len(key) : key[i] = "%"

decodeKey(key) == [i \in 1..Len(key) |-> decodeToken(key[i])]

\* s3Key.split("/"): the segments between the separators.
RECURSIVE split(_)
split(s) ==
  IF \A i \in 1..Len(s) : s[i] # "/" THEN << s >>
  ELSE LET p == CHOOSE i \in 1..Len(s) : s[i] = "/" /\ \A j \in 1..(i-1) : s[j] # "/"
       IN << SubSeq(s, 1, p - 1) >> \o split(SubSeq(s, p + 1, Len(s)))

\* uuidv4(): the n-th identity minted; no two calls return the same one.
UuidNames == << "uuid-1", "uuid-2", "uuid-3", "uuid-4", "uuid-5", "uuid-6", "uuid-7", "uuid-8" >>

uuidv4(n) == << UuidNames[n] >>

\* JSON.stringify({documentId, s3Key}) and JSON.parse of a message body.
stringify(documentId, s3Key) == << <<"documentId", documentId>>, <<"s3Key", s3Key>> >>

parseField(body, name) ==
  IF \E i \in 1..Len(body) : body[i][1] = name
  THEN body[CHOOSE i \in 1..Len(body) : body[i][1] = name][2]
  ELSE << >>

(* ----------------------------- state ----------------------------------- *)
VARIABLES
  workerImpl,  \* which processing handler is deployed
  table,       \* DynamoDB table: documentId -> item (its present attributes)
  queue,       \* SQS queue: the bag of message bodies in it (no order)
  blobs,       \* S3 bucket: the keys that hold an object
  gk,          \* S3 event handler: one processRecord per signal
  up,          \* upload handler invocations
  wk,          \* processing handler executions
  uuids        \* number of identities minted so far

vars == << workerImpl, table, queue, blobs, gk, up, wk, uuids >>

\* new Date().toISOString(): the time at which invocation n of a handler
\* reads the clock; no two invocations read the same instant.
Date(handlerName, n) == << handlerName, n >>

Signals == 1..MaxSignals
Uploads == 1..MaxUploads
Execs == 1..MaxExecs

exists(documentId) == documentId \in DOMAIN table

\* PutItem replaces the whole item.
PutItem(item) == (item.documentId :> item) @@ table

\* UpdateItem with "SET ...": creates the item if there is none, and
\* overwrites only the attributes named.
UpdateItem(documentId, attrs) ==
  LET old == IF exists(documentId) THEN table[documentId]
             ELSE [documentId |-> documentId]
  IN (documentId :> (attrs @@ old)) @@ table

has(item, attr) == attr \in DOMAIN item

\* SendMessage adds one message with the body; a deleted message leaves.
SendMessage(body) == queue (+) SetToBag({ body })

DeleteMessage(body) == queue (-) SetToBag({ body })

\* Invocations started so far.
invocations ==
  Cardinality({ g \in Signals : gk[g].pc # "idle" })
    + Cardinality({ u \in Uploads : up[u].pc # "idle" })
    + Cardinality({ e \in Execs : wk[e].pc # "idle" })

\* The status a reader of a table sees for an identity.
statusIn(t, documentId) ==
  IF documentId \in DOMAIN t /\ has(t[documentId], "status")
  THEN t[documentId].status ELSE "NONE"

statusOf(documentId) == statusIn(table, documentId)

idleExec ==
  [pc |-> "idle", documentId |-> << >>, s3Key |-> << >>,
   errorMessage |-> "", raisedBy |-> "",
   textractResult |-> << >>, fullText |-> << >>, comprehendEntities |-> << >>,
   startedOn |-> "", markedUploaded |-> FALSE,
   writes |-> << >>, outcome |-> "none"]

Init ==
  /\ workerImpl \in { "checked", "unchecked" }
  /\ table = << >>
  /\ queue = EmptyBag
  /\ blobs = { }
  /\ gk = [g \in Signals |-> [pc |-> "idle", key |-> << >>, s3Key |-> << >>,
                              documentId |-> << >>,
                              didPut |-> FALSE, didSend |-> FALSE, outcome |-> "none"]]
  /\ up = [u \in Uploads |-> [pc |-> "idle", fileName |-> << >>, contentType |-> "",
                              s3Key |-> << >>, documentId |-> << >>,
                              didPut |-> FALSE, didSend |-> FALSE, outcome |-> "none"]]
  /\ wk = [e \in Execs |-> idleExec]
  /\ uuids = 0

\* processRecord returns: what remains of it is the identity it worked on,
\* which of its two effects took place, and how it ended.
returns(g, outcome) ==
  [gk EXCEPT ![g].pc = "done", ![g].outcome = outcome, ![g].key = << >>, ![g].s3Key = << >>]

(* ------------------- S3 event handler (Gatekeeper) --------------------- *)
\* An object is stored under a key and S3 notifies the handler; a repeated
\* notification for a stored object is a redelivered signal.
\* Variant: the second path segment is taken for the identity.
documentIdOf_secondSegment(s3Key, n) ==
  LET keyParts == split(s3Key)
  IN IF Len(keyParts) >= 3 THEN keyParts[2] ELSE uuidv4(n)

documentIdOf(s3Key, n) ==
  LET keyParts == split(s3Key)
  IN IF Len(keyParts) >= 3 THEN keyParts[3] ELSE uuidv4(n)

processRecord(g, key) ==
  /\ gk[g].pc = "idle"
  /\ \A h \in Signals : h < g => gk[h].pc # "idle"
  /\ invocations < MaxInvocations
  /\ blobs' = blobs \cup { decodeKey(key) }
  /\ IF malformed(key)
     THEN /\ gk' = returns(g, "failed")
          /\ UNCHANGED uuids
     ELSE LET s3Key == decodeKey(key)
              fresh == Len(split(s3Key)) < 3
          IN /\ gk' = [gk EXCEPT ![g].pc = "check", ![g].key = key, ![g].s3Key = s3Key,
                                 ![g].documentId = documentIdOf(s3Key, uuids + 1)]
             /\ uuids' = IF fresh THEN uuids + 1 ELSE uuids
  /\ UNCHANGED << workerImpl, table, queue, wk, up >>

\* Variant: an existing record skips the record write but not the enqueue.
checkIfDocumentExists_stillEnqueues(g) ==
  /\ gk[g].pc = "check"
  /\ \/ gk' = returns(g, "failed")
     \/ /\ gk[g].documentId # << >>
        /\ IF exists(gk[g].documentId)
           THEN gk' = [gk EXCEPT ![g].pc = "send"]
           ELSE gk' = [gk EXCEPT ![g].pc = "put"]
  /\ UNCHANGED << workerImpl, table, queue, blobs, wk, up, uuids >>

checkIfDocumentExists(g) ==
  /\ gk[g].pc = "check"
  /\ \/ gk' = returns(g, "failed")
     \/ /\ gk[g].documentId # << >>
        /\ IF exists(gk[g].documentId)
           THEN gk' = returns(g, "skipped")
           ELSE gk' = [gk EXCEPT ![g].pc = "put"]
  /\ UNCHANGED << workerImpl, table, queue, blobs, wk, up, uuids >>

newRecord(documentId, s3Key, now) ==
  [documentId |-> documentId, s3Key |-> s3Key, status |-> "UPLOADED", uploadTime |-> now]

\* Variant: a failed record write is swallowed and the enqueue still runs.
putNewDocumentRecord_continues(g) ==
  /\ gk[g].pc = "put"
  /\ \/ /\ gk' = [gk EXCEPT ![g].pc = "send"]
        /\ UNCHANGED table
     \/ /\ table' = PutItem(newRecord(gk[g].documentId, gk[g].s3Key, Date("s3-event", g)))
        /\ gk' = [gk EXCEPT ![g].pc = "send", ![g].didPut = TRUE]
  /\ UNCHANGED << workerImpl, queue, blobs, wk, up, uuids >>

putNewDocumentRecord(g) ==
  /\ gk[g].pc = "put"
  /\ \/ /\ gk' = returns(g, "failed")
        /\ UNCHANGED table
     \/ /\ table' = PutItem(newRecord(gk[g].documentId, gk[g].s3Key, Date("s3-event", g)))
        /\ gk' = [gk EXCEPT ![g].pc = "send", ![g].didPut = TRUE]
  /\ UNCHANGED << workerImpl, queue, blobs, wk, up, uuids >>

sendMessageToSQS(g) ==
  /\ gk[g].pc = "send"
  /\ \/ /\ gk' = returns(g, "failed")
        /\ UNCHANGED queue
     \/ /\ queue' = SendMessage(stringify(gk[g].documentId, gk[g].s3Key))
        /\ gk' = [returns(g, "enqueued") EXCEPT ![g].didSend = TRUE]
  /\ UNCHANGED << workerImpl, table, blobs, wk, up, uuids >>

(* --------------------------- upload handler ---------------------------- *)
\* Validation, identity issuance and key construction (no awaited store call).
uploadKey(documentId, fileName) ==
  << "uploads", "/", "api", "/" >> \o documentId \o << "/" >> \o fileName

uploadDocument(u, fileName, contentType) ==
  /\ up[u].pc = "idle"
  /\ \A v \in Uploads : v < u => up[v].pc # "idle"
  /\ invocations < MaxInvocations
  /\ IF fileName = << >> \/ contentType = ""
     THEN /\ up' = [up EXCEPT ![u].pc = "done", ![u].outcome = "threw",
                              ![u].fileName = fileName, ![u].contentType = contentType]
          /\ UNCHANGED uuids
     ELSE /\ up' = [up EXCEPT ![u].pc = "put", ![u].documentId = uuidv4(uuids + 1),
                              ![u].fileName = fileName, ![u].contentType = contentType,
                              ![u].s3Key = uploadKey(uuidv4(uuids + 1), fileName)]
          /\ uuids' = uuids + 1
  /\ UNCHANGED << workerImpl, table, queue, blobs, gk, wk >>

uploadPutItem(u) ==
  /\ up[u].pc = "put"
  /\ \/ /\ up' = [up EXCEPT ![u].pc = "done", ![u].outcome = "threw"]
        /\ UNCHANGED table
     \/ /\ table' = PutItem(newRecord(up[u].documentId, up[u].s3Key, Date("upload", u)))
        /\ up' = [up EXCEPT ![u].pc = "send", ![u].didPut = TRUE]
  /\ UNCHANGED << workerImpl, queue, blobs, gk, wk, uuids >>

\* Variant: a failed enqueue is swallowed and the identity still returned.
uploadSendMessage_swallows(u) ==
  /\ up[u].pc = "send"
  /\ \/ /\ up' = [up EXCEPT ![u].pc = "done", ![u].outcome = "returned"]
        /\ UNCHANGED queue
     \/ /\ queue' = SendMessage(stringify(up[u].documentId, up[u].s3Key))
        /\ up' = [up EXCEPT ![u].pc = "done", ![u].didSend = TRUE, ![u].outcome = "returned"]
  /\ UNCHANGED << workerImpl, table, blobs, gk, wk, uuids >>

uploadSendMessage(u) ==
  /\ up[u].pc = "send"
  /\ \/ /\ up' = [up EXCEPT ![u].pc = "done", ![u].outcome = "threw"]
        /\ UNCHANGED queue
     \/ /\ queue' = SendMessage(stringify(up[u].documentId, up[u].s3Key))
        /\ up' = [up EXCEPT ![u].pc = "done", ![u].didSend = TRUE, ![u].outcome = "returned"]
  /\ UNCHANGED << workerImpl, table, blobs, gk, wk, uuids >>

\* The client stores the object under the presigned key.  The bucket
\* notifies only for the prefix uploads/direct/, so no signal follows.
clientPutObject(u) ==
  /\ up[u].outcome = "returned"
  /\ up[u].s3Key \notin blobs
  /\ blobs' = blobs \cup { up[u].s3Key }
  /\ UNCHANGED << workerImpl, table, queue, gk, up, wk, uuids >>

(* ------------------ processing handler (Extraction Worker) ------------- *)
\* OCR outputs the Textract client may return.
TextractResults ==
  { [Blocks |-> << [BlockType |-> "LINE", Text |-> "Invoice"],
                   [BlockType |-> "TABLE", Text |-> "ignored"],
                   [BlockType |-> "LINE", Text |-> "#42"] >>],
    [ResponseMetadata |-> "ok"] }

\* Variant: blocks of every kind are taken into the text.
RECURSIVE lineTexts_allKinds(_)
lineTexts_allKinds(blocksLeft) ==
  IF blocksLeft = << >> THEN << >>
  ELSE LET block == Head(blocksLeft)
       IN << IF has(block, "Text") THEN block.Text ELSE "" >>
            \o lineTexts_allKinds(Tail(blocksLeft))

\* Blocks?.filter(BlockType === "LINE").map(Text || "")
RECURSIVE lineTexts(_)
lineTexts(blocksLeft) ==
  IF blocksLeft = << >> THEN << >>
  ELSE LET block == Head(blocksLeft)
       IN (IF block.BlockType = "LINE"
           THEN << IF has(block, "Text") THEN block.Text ELSE "" >>
           ELSE << >>) \o lineTexts(Tail(blocksLeft))

\* textBlocks?.join(" ") || "": the texts with one space between neighbours.
RECURSIVE join(_)
join(texts) ==
  IF texts = << >> THEN << >>
  ELSE IF Len(texts) = 1 THEN << texts[1] >>
  ELSE << texts[1], " " >> \o join(Tail(texts))

fullTextOf(textractResult) ==
  IF has(textractResult, "Blocks") THEN join(lineTexts(textractResult.Blocks)) ELSE << >>

\* Comprehend's answer for a text: one entity per non-blank piece.
detectedEntities(text) ==
  [Entities |-> SelectSeq(text, LAMBDA t : t # " " /\ t # "")]

\* The handler's first awaited call: the idempotency read (part_000) or,
\* in lambda/processing-handler/index.ts, the PROCESSING write.
firstStep == IF workerImpl = "checked" THEN "read" ELSE "mark"

\* Variant: only documentId is validated.
startExecution_documentIdOnly(documentId, s3Key) ==
  IF documentId = << >>
  THEN [idleExec EXCEPT !.pc = "done", !.outcome = "invalid",
                        !.documentId = documentId, !.s3Key = s3Key]
  ELSE [idleExec EXCEPT !.pc = firstStep, !.documentId = documentId, !.s3Key = s3Key,
                        !.startedOn = statusOf(documentId)]

\* Input validation, lines 19-25.  startedOn is the status the record has
\* when the handler starts, kept until the handler's first call returns.
startExecution(documentId, s3Key) ==
  IF documentId = << >> \/ s3Key = << >>
  THEN [idleExec EXCEPT !.pc = "done", !.outcome = "invalid",
                        !.documentId = documentId, !.s3Key = s3Key]
  ELSE [idleExec EXCEPT !.pc = firstStep, !.documentId = documentId, !.s3Key = s3Key,
                        !.startedOn = statusOf(documentId)]

\* The handler returns: its locals are gone, its writes stay on record.
finished(exec, outcome, lastWrite) ==
  [idleExec EXCEPT !.pc = "done", !.outcome = outcome,
                   !.documentId = exec.documentId,
                   !.writes = exec.writes \o lastWrite]

\* A call that throws inside the try block lands in the catch block, with
\* the error of a table call ("store") or of S3, Textract or Comprehend
\* ("service").
raise(e, call, message) ==
  [wk EXCEPT ![e].pc = "catch", ![e].errorMessage = message, ![e].raisedBy = call,
             ![e].startedOn = "",
             ![e].textractResult = << >>, ![e].fullText = << >>]

\* Variant: a record in ERROR is taken for finished as well.
idempotencyCheck_terminalStops(e) ==
  /\ wk[e].pc = "read"
  /\ \/ \E m \in ErrorMessages : wk' = raise(e, "store", m)
     \/ LET id == wk[e].documentId
        IN IF exists(id) /\ has(table[id], "status")
                /\ table[id].status \in { "PROCESSED", "ERROR" }
           THEN wk' = [wk EXCEPT ![e] = finished(wk[e], "skipped", << >>)]
           ELSE wk' = [wk EXCEPT ![e].pc = "mark", ![e].startedOn = ""]
  /\ UNCHANGED << workerImpl, table, queue, blobs, gk, up, uuids >>

\* Variant: the read also turns away an execution while another one for
\* the same identity is under way.
idempotencyCheck_exclusive(e) ==
  /\ wk[e].pc = "read"
  /\ \/ \E m \in ErrorMessages : wk' = raise(e, "store", m)
     \/ LET id == wk[e].documentId
            busy == \E f \in Execs \ { e } :
                      /\ wk[f].documentId = id
                      /\ wk[f].pc \in { "mark", "fetch", "ocr", "entities", "complete" }
        IN IF busy \/ (exists(id) /\ has(table[id], "status")
                         /\ table[id].status = "PROCESSED")
           THEN wk' = [wk EXCEPT ![e] = finished(wk[e], "skipped", << >>)]
           ELSE wk' = [wk EXCEPT ![e].pc = "mark", ![e].startedOn = ""]
  /\ UNCHANGED << workerImpl, table, queue, blobs, gk, up, uuids >>

\* GetItem and the status === "PROCESSED" test.
idempotencyCheck(e) ==
  /\ wk[e].pc = "read"
  /\ \/ \E m \in ErrorMessages : wk' = raise(e, "store", m)
     \/ LET id == wk[e].documentId
        IN IF exists(id) /\ has(table[id], "status") /\ table[id].status = "PROCESSED"
           THEN wk' = [wk EXCEPT ![e] = finished(wk[e], "skipped", << >>)]
           ELSE wk' = [wk EXCEPT ![e].pc = "mark", ![e].startedOn = ""]
  /\ UNCHANGED << workerImpl, table, queue, blobs, gk, up, uuids >>

\* Variant: a failed PROCESSING write is swallowed and the fetch still runs.
markProcessing_swallows(e) ==
  /\ wk[e].pc = "mark"
  /\ \/ /\ wk' = [wk EXCEPT ![e].pc = "fetch", ![e].startedOn = ""]
        /\ UNCHANGED table
     \/ /\ table' = UpdateItem(wk[e].documentId, [status |-> "PROCESSING"])
        /\ wk' = [wk EXCEPT ![e].pc = "fetch", ![e].startedOn = "", ![e].markedUploaded = (statusOf(wk[e].documentId) = "UPLOADED"),
                            ![e].writes = Append(@, "PROCESSING")]
  /\ UNCHANGED << workerImpl, queue, blobs, gk, up, uuids >>

markProcessing(e) ==
  /\ wk[e].pc = "mark"
  /\ \/ /\ \E m \in ErrorMessages : wk' = raise(e, "store", m)
        /\ UNCHANGED table
     \/ /\ table' = UpdateItem(wk[e].documentId, [status |-> "PROCESSING"])
        /\ wk' = [wk EXCEPT ![e].pc = "fetch", ![e].startedOn = "", ![e].markedUploaded = (statusOf(wk[e].documentId) = "UPLOADED"),
                            ![e].writes = Append(@, "PROCESSING")]
  /\ UNCHANGED << workerImpl, queue, blobs, gk, up, uuids >>

getS3Object(e) ==
  /\ wk[e].pc = "fetch"
  /\ \/ \E m \in ErrorMessages :
          wk' = raise(e, "service", m)
     \/ /\ wk[e].s3Key \in blobs
        /\ wk' = [wk EXCEPT ![e].pc = "ocr"]
  /\ UNCHANGED << workerImpl, table, queue, blobs, gk, up, uuids >>

analyzeDocument(e) ==
  /\ wk[e].pc = "ocr"
  /\ \/ \E m \in ErrorMessages :
          wk' = raise(e, "service", m)
     \/ \E r \in TextractResults :
          wk' = [wk EXCEPT ![e].pc = "entities",
                           ![e].textractResult = r, ![e].fullText = fullTextOf(r)]
  /\ UNCHANGED << workerImpl, table, queue, blobs, gk, up, uuids >>

detectEntities(e) ==
  /\ wk[e].pc = "entities"
  /\ \/ \E m \in ErrorMessages :
          wk' = raise(e, "service", m)
     \/ wk' = [wk EXCEPT ![e].pc = "complete",
                         ![e].comprehendEntities = detectedEntities(wk[e].fullText).Entities]
  /\ UNCHANGED << workerImpl, table, queue, blobs, gk, up, uuids >>

processedAttrs(e, now) ==
  [status |-> "PROCESSED", processedTime |-> now,
   textractData |-> wk[e].textractResult,
   comprehendEntities |-> wk[e].comprehendEntities]

\* Variant: a failed PROCESSED write escapes the catch block and ends the
\* execution with nothing recorded.
complete_uncaught(e) ==
  /\ wk[e].pc = "complete"
  /\ \/ /\ wk' = [wk EXCEPT ![e] = finished(wk[e], "raised", << >>)]
        /\ UNCHANGED table
     \/ /\ table' = UpdateItem(wk[e].documentId, processedAttrs(e, Date("processing", e)))
        /\ wk' = [wk EXCEPT ![e] = finished(wk[e], "processed", << "PROCESSED" >>)]
  /\ UNCHANGED << workerImpl, queue, blobs, gk, up, uuids >>

complete(e) ==
  /\ wk[e].pc = "complete"
  /\ \/ /\ \E m \in ErrorMessages : wk' = raise(e, "store", m)
        /\ UNCHANGED table
     \/ /\ table' = UpdateItem(wk[e].documentId, processedAttrs(e, Date("processing", e)))
        /\ wk' = [wk EXCEPT ![e] = finished(wk[e], "processed", << "PROCESSED" >>)]
  /\ UNCHANGED << workerImpl, queue, blobs, gk, up, uuids >>

\* error.message || "Unknown error"
errorText(message) == IF message = "" THEN "Unknown error" ELSE message

errorAttrs(e) == [status |-> "ERROR", errorMessage |-> errorText(wk[e].errorMessage)]

\* Variant: a failure of the ERROR write is thrown on to the caller.
fail_rethrows(e) ==
  /\ wk[e].pc = "catch"
  /\ \/ /\ wk' = [wk EXCEPT ![e] = finished(wk[e], "threw", << >>)]
        /\ UNCHANGED table
     \/ /\ table' = UpdateItem(wk[e].documentId, errorAttrs(e))
        /\ wk' = [wk EXCEPT ![e] = finished(wk[e], "error", << "ERROR" >>)]
  /\ UNCHANGED << workerImpl, queue, blobs, gk, up, uuids >>

\* The catch block: the ERROR write, whose own failure is only logged.
fail(e) ==
  /\ wk[e].pc = "catch"
  /\ \/ /\ wk' = [wk EXCEPT ![e] = finished(wk[e], "unrecorded", << >>)]
        /\ UNCHANGED table
     \/ /\ table' = UpdateItem(wk[e].documentId, errorAttrs(e))
        /\ wk' = [wk EXCEPT ![e] = finished(wk[e], "error", << "ERROR" >>)]
  /\ UNCHANGED << workerImpl, queue, blobs, gk, up, uuids >>

\* The Lambda timeout (5 minutes) ends an execution wherever it is.
timeout(e) ==
  /\ wk[e].pc \in { "read", "mark", "fetch", "ocr", "entities", "complete", "catch" }
  /\ wk' = [wk EXCEPT ![e] = finished(wk[e], "abandoned", << >>)]
  /\ UNCHANGED << workerImpl, table, queue, blobs, gk, up, uuids >>

(* ------------------------ queue consumer handler ----------------------- *)
\* One delivered message (batchSize 1).  The handler catches every error
\* and returns normally, so the message is deleted after the invocation;
\* the queue may nevertheless deliver a message again (at-least-once).
queueProcessingHandler(body, e, started, redelivered) ==
  /\ BagIn(body, queue)
  /\ wk[e].pc = "idle"
  /\ \A f \in Execs : f < e => wk[f].pc # "idle"
  /\ started => invocations < MaxInvocations
  /\ LET documentId == parseField(body, "documentId")
         s3Key == parseField(body, "s3Key")
     IN wk' = IF started THEN [wk EXCEPT ![e] = startExecution(documentId, s3Key)] ELSE wk
  /\ queue' = IF redelivered THEN queue ELSE DeleteMessage(body)
  /\ UNCHANGED << workerImpl, table, blobs, gk, up, uuids >>

Worker ==
  \/ \E body \in BagToSet(queue), e \in Execs, started \in BOOLEAN, redelivered \in BOOLEAN :
        queueProcessingHandler(body, e, started, redelivered)
  \/ \E e \in Execs : idempotencyCheck(e)
  \/ \E e \in Execs : markProcessing(e)
  \/ \E e \in Execs : getS3Object(e)
  \/ \E e \in Execs : analyzeDocument(e)
  \/ \E e \in Execs : detectEntities(e)
  \/ \E e \in Execs : complete(e)
  \/ \E e \in Execs : fail(e)
  \/ \E e \in Execs : timeout(e)

\* Direct-drop ingestion: S3 signals, the queue and the workers.
Next ==
  \/ \E g \in Signals, key \in RawKeys : processRecord(g, key)
  \/ \E g \in Signals : checkIfDocumentExists(g)
  \/ \E g \in Signals : putNewDocumentRecord(g)
  \/ \E g \in Signals : sendMessageToSQS(g)
  \/ Worker

Spec == Init /\ [][Next]_vars

\* Every awaited call of an execution returns or throws (the SDK clients
\* time out), so an execution that is not cut off by the Lambda timeout
\* keeps taking its next step.
execution(e) ==
  \/ idempotencyCheck(e)
  \/ markProcessing(e)
  \/ getS3Object(e)
  \/ analyzeDocument(e)
  \/ detectEntities(e)
  \/ complete(e)
  \/ fail(e)

SpecLive == Spec /\ \A e \in Execs : WF_vars(execution(e))

\* API-driven ingestion: upload requests, the queue and the workers.  The
\* identities it mints never meet those derived from direct-drop keys.
NextUpload ==
  \/ \E u \in Uploads, fileName \in FileNames, contentType \in ContentTypes :
        uploadDocument(u, fileName, contentType)
  \/ \E u \in Uploads : uploadPutItem(u)
  \/ \E u \in Uploads : uploadSendMessage(u)
  \/ \E u \in Uploads : clientPutObject(u)
  \/ Worker

SpecUpload == Init /\ [][NextUpload]_vars

(* ------------------- direct start of the state machine ----------------- *)
\* Inputs of a state-machine execution started by hand: the LambdaInvoke
\* task hands the whole execution input to the processing handler as its
\* event, whether or not a record or an object stands behind it.
Events ==
  { [documentId |-> << "d2" >>,
     s3Key |-> << "uploads", "/", "direct", "/", "d2", "/", "f.pdf" >>],
    [documentId |-> << >>,
     s3Key |-> << "uploads", "/", "direct", "/", "d2", "/", "f.pdf" >>],
    [documentId |-> << "d2" >>, s3Key |-> << >>] }

handler(e, event) ==
  /\ wk[e].pc = "idle"
  /\ \A f \in Execs : f < e => wk[f].pc # "idle"
  /\ invocations < MaxInvocations
  /\ wk' = [wk EXCEPT ![e] = startExecution(event.documentId, event.s3Key)]
  /\ UNCHANGED << workerImpl, table, queue, blobs, gk, up, uuids >>

\* API-driven ingestion together with executions started by hand.
NextInvoke ==
  \/ \E u \in Uploads, fileName \in FileNames, contentType \in ContentTypes :
        uploadDocument(u, fileName, contentType)
  \/ \E u \in Uploads : uploadPutItem(u)
  \/ \E u \in Uploads : uploadSendMessage(u)
  \/ \E u \in Uploads : clientPutObject(u)
  \/ \E e \in Execs, event \in Events : handler(e, event)
  \/ Worker

SpecInvoke == Init /\ [][NextInvoke]_vars

(* ------------------- OCR answers of any shape -------------------------- *)
\* Answers of AnalyzeDocument: blocks of several kinds, a LINE without
\* Text, no LINE at all, an empty Blocks list and no Blocks at all.
OcrShapes ==
  { [Blocks |-> << [BlockType |-> "LINE", Text |-> "Invoice"],
                   [BlockType |-> "TABLE", Text |-> "ignored"],
                   [BlockType |-> "LINE", Text |-> "#42"] >>],
    [Blocks |-> << [BlockType |-> "LINE"], [BlockType |-> "LINE", Text |-> "#42"] >>],
    [Blocks |-> << [BlockType |-> "LINE", Text |-> "Invoice"] >>],
    [Blocks |-> << [BlockType |-> "TABLE", Text |-> "ignored"] >>],
    [Blocks |-> << >>],
    [ResponseMetadata |-> "ok"] }

analyzeDocumentShapes(e) ==
  /\ wk[e].pc = "ocr"
  /\ \/ \E m \in ErrorMessages :
          wk' = raise(e, "service", m)
     \/ \E r \in OcrShapes :
          wk' = [wk EXCEPT ![e].pc = "entities",
                           ![e].textractResult = r, ![e].fullText = fullTextOf(r)]
  /\ UNCHANGED << workerImpl, table, queue, blobs, gk, up, uuids >>

\* API-driven ingestion with OCR answers of any shape.
NextOcr ==
  \/ \E u \in Uploads, fileName \in FileNames, contentType \in ContentTypes :
        uploadDocument(u, fileName, contentType)
  \/ \E u \in Uploads : uploadPutItem(u)
  \/ \E u \in Uploads : uploadSendMessage(u)
  \/ \E u \in Uploads : clientPutObject(u)
  \/ \E body \in BagToSet(queue), e \in Execs, started \in BOOLEAN, redelivered \in BOOLEAN :
        queueProcessingHandler(body, e, started, redelivered)
  \/ \E e \in Execs : idempotencyCheck(e)
  \/ \E e \in Execs : markProcessing(e)
  \/ \E e \in Execs : getS3Object(e)
  \/ \E e \in Execs : analyzeDocumentShapes(e)
  \/ \E e \in Execs : detectEntities(e)
  \/ \E e \in Execs : complete(e)
  \/ \E e \in Execs : fail(e)
  \/ \E e \in Execs : timeout(e)

SpecOcr == Init /\ [][NextOcr]_vars

(* --------------------- signals for keys of any shape ------------------- *)
\* Raw keys with one to five segments, an empty identity segment and
\* URL-encoded separators.
KeyShapes ==
  { << "uploads", "/", "direct", "/", "d1", "/", "f.pdf" >>,
    << "uploads", "%2F", "direct", "%2F", "d1", "%2F", "f.pdf" >>,
    << "uploads", "/", "direct", "/", "f.pdf" >>,
    << "uploads", "/", "f.pdf" >>,
    << "f.pdf" >>,
    << "uploads", "/", "direct", "/", "/", "f.pdf" >>,
    << "uploads", "/", "direct", "/", "d1", "/", "sub", "/", "f.pdf" >> }

\* The S3 event handler alone, notified for keys of any shape.
NextKeys ==
  \/ \E g \in Signals, key \in KeyShapes : processRecord(g, key)
  \/ \E g \in Signals : checkIfDocumentExists(g)
  \/ \E g \in Signals : putNewDocumentRecord(g)
  \/ \E g \in Signals : sendMessageToSQS(g)

SpecKeys == Init /\ [][NextKeys]_vars

(* ============================ properties =============================== *)
Statuses == { "UPLOADED", "PROCESSING", "PROCESSED", "ERROR" }

forward(from, to) ==
  << from, to >> \in { << "UPLOADED", "PROCESSING" >>, << "UPLOADED", "PROCESSED" >>,
                       << "UPLOADED", "ERROR" >>, << "PROCESSING", "PROCESSED" >>,
                       << "PROCESSING", "ERROR" >> }

\* C1: forward-only status.  Whenever the status of a record changes, the
\* new status lies later than the old one in UPLOADED, PROCESSING, PROCESSED
\* or in UPLOADED, PROCESSING, ERROR, so the distinct statuses a record takes
\* form a subsequence of one of the two.
ForwardOnlyStatus ==
  [][\A id \in DOMAIN table :
       statusIn(table', id) # statusIn(table, id)
         => forward(statusIn(table, id), statusIn(table', id))]_vars

\* C2: terminal-state invariant.  A record whose status is PROCESSED or
\* ERROR is not changed, in any field, by any later step of any component.
TerminalStateInvariant ==
  [][\A id \in DOMAIN table :
       statusOf(id) \in { "PROCESSED", "ERROR" }
         => id \in DOMAIN table' /\ table'[id] = table[id]]_vars

\* C3: atomic create.  A record write of the Gatekeeper that meets an
\* existing record of its identity leaves that record as it was.
AtomicCreate ==
  [][\A g \in Signals :
       (gk[g].pc = "put" /\ gk'[g].pc # "put" /\ exists(gk[g].documentId))
         => table'[gk[g].documentId] = table[gk[g].documentId]]_vars

\* C4: idempotent success.  An execution that starts on a PROCESSED record
\* and makes its first call while the record is still PROCESSED ends with
\* that call: no dependency call, no write, the record unchanged (a first
\* call that throws is left aside).
IdempotentSuccess ==
  [][\A e \in Execs :
       (/\ wk[e].pc = firstStep
        /\ wk[e].startedOn = "PROCESSED"
        /\ statusOf(wk[e].documentId) = "PROCESSED"
        /\ wk'[e] # wk[e]
        /\ wk'[e].pc # "catch")
         => wk'[e].pc = "done" /\ wk'[e].writes = << >> /\ table' = table]_vars

\* C5: terminal fields consistency.  In every state every record has
\* textractData and comprehendEntities exactly when its status is PROCESSED
\* and errorMessage exactly when its status is ERROR.
TerminalFieldsConsistency ==
  \A id \in DOMAIN table :
    LET r == table[id]
    IN /\ has(r, "textractData") <=> r.status = "PROCESSED"
       /\ has(r, "comprehendEntities") <=> r.status = "PROCESSED"
       /\ has(r, "errorMessage") <=> r.status = "ERROR"

\* C6: at-most-once effective processing.  For every identity at most one
\* worker execution has written to the record.
mutators(id) == { e \in Execs : wk[e].documentId = id /\ wk[e].writes # << >> }

AtMostOnceProcessing == \A id \in DOMAIN table : Cardinality(mutators(id)) <= 1

\* C7 as claimed: a signal whose existence check found a record has, when
\* its handling is over, written no record and enqueued a request.
DuplicateSignalStillEnqueues ==
  \A g \in Signals : gk[g].outcome = "skipped" => ~gk[g].didPut /\ gk[g].didSend

\* C7 amended: when the existence check of a signal finds a record, the
\* handling of that signal ends at once: the table and the queue stay as
\* they are, and a handling that is over takes no further step.
DuplicateSignalSkips ==
  [][\A g \in Signals :
       /\ (gk[g].pc = "check" /\ gk'[g].pc # "check" /\ gk'[g].outcome # "failed"
             /\ exists(gk[g].documentId))
            => /\ gk'[g].pc = "done" /\ ~gk'[g].didPut /\ ~gk'[g].didSend
               /\ table' = table /\ queue' = queue
       /\ gk[g].pc = "done" => gk'[g] = gk[g]]_vars

DuplicateSignalSkipsWitness ==
  \E g \in Signals :
    /\ gk[g].outcome = "skipped" /\ ~gk[g].didSend
    /\ exists(gk[g].documentId)
    /\ \E h \in Signals : h # g /\ gk[h].documentId = gk[g].documentId /\ gk[h].didPut

\* C8: one record and one request per identity.  Once a record has been
\* written for an identity and no signal for it is being handled any more,
\* exactly one record write and exactly one enqueue have taken effect for it.
handled(id) == { g \in Signals : gk[g].documentId = id /\ gk[g].pc # "idle" }

OneRecordOneRequest ==
  \A g \in Signals :
    LET id == gk[g].documentId
    IN (/\ gk[g].pc = "done" /\ gk[g].didPut
        /\ \A h \in handled(id) : gk[h].pc = "done")
         => /\ Cardinality({ h \in handled(id) : gk[h].didPut }) = 1
            /\ Cardinality({ h \in handled(id) : gk[h].didSend }) = 1

\* C9: first ingestion.  For a key uploads/<source>/<documentId>/<fileName>
\* whose existence check found no record: the record write stores exactly
\* {documentId = third segment, s3Key = decoded key, status UPLOADED,
\* uploadTime} and enqueues nothing yet; the enqueue that follows it adds
\* exactly one message {documentId, s3Key} with those values.
slashes(s) == { i \in 1..Len(s) : s[i] = "/" }

wellShaped(s) == Cardinality(slashes(s)) = 3 /\ s[1] = "uploads"

thirdSegment(s) ==
  LET second == CHOOSE i \in slashes(s) : Cardinality({ j \in slashes(s) : j < i }) = 1
      third == CHOOSE i \in slashes(s) : Cardinality({ j \in slashes(s) : j < i }) = 2
  IN SubSeq(s, second + 1, third - 1)

FirstIngestion ==
  [][\A g \in Signals :
       LET s3Key == decodeKey(gk[g].key)
           id == thirdSegment(s3Key)
       IN (gk[g].pc \in { "check", "put", "send" } /\ wellShaped(s3Key)) =>
            /\ (gk[g].pc = "check" /\ gk'[g].pc = "put") => id \notin DOMAIN table
            /\ (gk[g].pc = "put" /\ gk'[g].pc = "send")
                 => /\ id \in DOMAIN table'
                    /\ DOMAIN table'[id] = { "documentId", "s3Key", "status", "uploadTime" }
                    /\ table'[id].documentId = id
                    /\ table'[id].s3Key = s3Key
                    /\ table'[id].status = "UPLOADED"
                    /\ queue' = queue
            /\ (gk[g].pc = "send" /\ gk'[g].didSend)
                 => /\ gk[g].didPut
                    /\ gk'[g].pc = "done"
                    /\ table' = table
                    /\ queue' = queue (+) SetToBag({ << << "documentId", id >>,
                                                        << "s3Key", s3Key >> >> })]_vars

FirstIngestionWitness ==
  \E g \in Signals :
    /\ gk[g].outcome = "enqueued" /\ gk[g].didPut /\ gk[g].documentId = << "d1" >>
    /\ statusOf(<< "d1" >>) = "UPLOADED"
    /\ BagIn(<< << "documentId", << "d1" >> >>, << "s3Key", table[<< "d1" >>].s3Key >> >>, queue)

\* C10: dependency failure is recorded.  When an execution whose PROCESSING
\* write replaced UPLOADED has a dependency call raise and its ERROR write
\* succeeds, the record then has status ERROR, the failure's message (or
\* "Unknown error") as errorMessage, and no textractData or
\* comprehendEntities.
DependencyFailureRecorded ==
  [][\A e \in Execs :
       (/\ wk[e].pc = "catch" /\ wk[e].raisedBy = "service" /\ wk[e].markedUploaded
        /\ wk'[e].outcome = "error")
         => LET r == table'[wk[e].documentId]
            IN /\ r.status = "ERROR"
               /\ r.errorMessage = (IF wk[e].errorMessage = "" THEN "Unknown error"
                                    ELSE wk[e].errorMessage)
               /\ ~has(r, "textractData")
               /\ ~has(r, "comprehendEntities")]_vars

\* C11: ERROR is recorded only after MarkProcessing.  An execution whose
\* catch block writes ERROR has written PROCESSING before; a failure of the
\* idempotency read or of the PROCESSING write itself records nothing.
ErrorOnlyAfterMarkProcessing ==
  [][\A e \in Execs :
       (wk[e].pc = "catch" /\ wk'[e].outcome = "error")
         => \E i \in 1..Len(wk[e].writes) : wk[e].writes[i] = "PROCESSING"]_vars

\* C12: records are created only in UPLOADED.  A step that brings a record
\* into existence gives it status UPLOADED, an s3Key and an uploadTime, also
\* when a worker execution runs for an identity that has no record.
CreatedOnlyUploaded ==
  [][\A id \in DOMAIN table' :
       id \notin DOMAIN table
         => /\ statusIn(table', id) = "UPLOADED"
            /\ has(table'[id], "s3Key")
            /\ has(table'[id], "uploadTime")]_vars

\* C13: the consumer starts exactly one execution per delivered message.
\* Whenever a delivered message leaves the queue, exactly one execution has
\* been started in that step, with the message's {documentId, s3Key} as its
\* input.
ConsumerStartsOne ==
  [][\A body \in BagToSet(queue) :
       queue' = DeleteMessage(body)
         => \E e \in Execs :
              /\ wk[e].pc = "idle" /\ wk'[e].pc # "idle"
              /\ stringify(wk'[e].documentId, wk'[e].s3Key) = body
              /\ \A f \in Execs \ { e } : wk'[f] = wk[f]]_vars

\* C14: no silent loss at the consumer.  Every request the Gatekeeper has
\* enqueued is still in the queue or has had a worker execution started
\* for it.
requested(id) == \E body \in BagToSet(queue) : parseField(body, "documentId") = id

NoSilentLoss ==
  \A g \in Signals :
    gk[g].didSend
      => \/ requested(gk[g].documentId)
         \/ \E e \in Execs : wk[e].pc # "idle" /\ wk[e].documentId = gk[g].documentId

\* C15: reprocess unless PROCESSED.  An execution whose idempotency read
\* finds no status or UPLOADED, PROCESSING or ERROR goes on to the PROCESSING
\* write; that write sets PROCESSING and is followed, with no result of an
\* earlier attempt at hand, by the fetch, the OCR call, the entity call and
\* the final write in this order.  Only a read that finds PROCESSED ends the
\* execution early.
proceeds(e) ==
  wk'[e] # wk[e] /\ wk'[e].pc # "catch" /\ wk'[e].outcome # "abandoned"

ReprocessUnlessProcessed ==
  [][\A e \in Execs :
       LET id == wk[e].documentId
       IN /\ (wk[e].pc = "read" /\ proceeds(e) /\ statusOf(id) # "PROCESSED")
               => wk'[e].pc = "mark" /\ table' = table
          /\ (wk[e].pc = "mark" /\ proceeds(e))
               => /\ wk'[e].pc = "fetch"
                  /\ statusIn(table', id) = "PROCESSING"
                  /\ wk'[e].textractResult = << >>
                  /\ wk'[e].comprehendEntities = << >>
          /\ (wk[e].pc = "fetch" /\ proceeds(e)) => wk'[e].pc = "ocr"
          /\ (wk[e].pc = "ocr" /\ proceeds(e)) => wk'[e].pc = "entities"
          /\ (wk[e].pc = "entities" /\ proceeds(e)) => wk'[e].pc = "complete"
          /\ (wk[e].outcome # "skipped" /\ wk'[e].outcome = "skipped")
               => statusOf(id) = "PROCESSED"]_vars

ReprocessUnlessProcessedWitness ==
  /\ workerImpl = "checked"
  /\ \E e \in Execs :
       /\ wk[e].pc = "fetch"
       /\ statusOf(wk[e].documentId) = "PROCESSING"
       /\ has(table[wk[e].documentId], "errorMessage")

\* C16: the known race is reachable.  While one execution for an identity
\* is between its idempotency check and its final write and the status is
\* not PROCESSED, a second execution for the same identity that is at its
\* idempotency read can pass it, and one that has passed it can perform the
\* PROCESSING write: nothing makes the read and the write one atomic step.
underWay == { "mark", "fetch", "ocr", "entities", "complete" }

passes(e) == idempotencyCheck(e) /\ wk'[e].pc = "mark"

marks(e) == markProcessing(e) /\ wk'[e].pc = "fetch"

RaceWindowOpen ==
  \A e \in Execs, f \in Execs :
    (/\ e # f
     /\ wk[e].documentId = wk[f].documentId
     /\ wk[e].pc \in underWay
     /\ statusOf(wk[f].documentId) # "PROCESSED")
      => /\ wk[f].pc = "read" => ENABLED passes(f)
         /\ wk[f].pc = "mark" => ENABLED marks(f)

\* Both executions have passed the idempotency check and have called the
\* OCR service.
RaceWindowOpenWitness ==
  /\ workerImpl = "checked"
  /\ \E e \in Execs, f \in Execs :
       /\ e # f
       /\ wk[e].documentId = wk[f].documentId
       /\ wk[e].pc \in { "entities", "complete" }
       /\ wk[f].pc \in { "entities", "complete" }
       /\ Len(wk[e].writes) = 1 /\ Len(wk[f].writes) = 1

\* C17: validation rejects without mutation.  A processing handler invoked
\* with an empty documentId or s3Key returns at once, and an upload request
\* with an empty fileName or contentType throws at once: no table write, no
\* message enqueued, no identity minted, no further step of that invocation.
nothingEnqueued == \A body \in BagToSet(queue') : CopiesIn(body, queue') <= CopiesIn(body, queue)

ValidationRejects ==
  [][/\ \A e \in Execs :
          /\ (/\ wk[e].pc = "idle" /\ wk'[e].pc # "idle"
              /\ (wk'[e].documentId = << >> \/ wk'[e].s3Key = << >>))
               => /\ wk'[e].pc = "done" /\ wk'[e].outcome = "invalid"
                  /\ wk'[e].writes = << >>
                  /\ table' = table /\ nothingEnqueued
          /\ wk[e].outcome = "invalid" => wk'[e] = wk[e]
     /\ \A u \in Uploads :
          /\ (/\ up[u].pc = "idle" /\ up'[u].pc # "idle"
              /\ (up'[u].fileName = << >> \/ up'[u].contentType = ""))
               => /\ up'[u].pc = "done" /\ up'[u].outcome = "threw"
                  /\ ~up'[u].didPut /\ ~up'[u].didSend
                  /\ table' = table /\ queue' = queue /\ uuids' = uuids
          /\ up[u].outcome = "threw" => up'[u] = up[u]]_vars

ValidationRejectsWitness ==
  /\ \E e \in Execs : wk[e].outcome = "invalid" /\ wk[e].s3Key = << >>
  /\ \E u \in Uploads : up[u].outcome = "threw" /\ up[u].contentType = ""

\* C18: the worker never raises and never retries internally.  After a call
\* has thrown, the catch block makes one ERROR write and the handler returns
\* (unless the Lambda timeout cuts it short), with "error" when the write
\* succeeded and with "unrecorded", the record untouched, when it failed;
\* an execution that has returned takes no further step.
returned == { "invalid", "skipped", "processed", "error", "unrecorded" }

NeverRaisesNeverRetries ==
  [][\A e \in Execs :
       /\ (wk[e].pc = "catch" /\ wk'[e] # wk[e] /\ wk'[e].outcome # "abandoned")
            => /\ wk'[e].pc = "done"
               /\ wk'[e].outcome \in { "error", "unrecorded" }
               /\ wk'[e].outcome = "unrecorded"
                    => table' = table /\ wk'[e].writes = wk[e].writes
               /\ wk'[e].outcome = "error"
                    => wk'[e].writes = Append(wk[e].writes, "ERROR")
       /\ (wk[e].pc = "done" /\ wk[e].outcome # "abandoned")
            => wk'[e] = wk[e] /\ wk[e].outcome \in returned]_vars

NeverRaisesNeverRetriesWitness ==
  \E e \in Execs :
    /\ wk[e].outcome = "unrecorded"
    /\ wk[e].writes = << "PROCESSING" >>
    /\ statusOf(wk[e].documentId) = "PROCESSING"

\* C19: the Gatekeeper drops on failure.  When the existence check, the
\* record write or the enqueue of a signal fails, the handling of that
\* signal ends in that step with the table and the queue untouched and the
\* other signals as they were; it is not taken up again, and a request is
\* only ever enqueued after the record write has succeeded.
GatekeeperDrops ==
  [][\A g \in Signals :
       /\ (gk[g].pc \in { "check", "put", "send" } /\ gk'[g].outcome = "failed")
            => /\ gk'[g].pc = "done"
               /\ table' = table /\ queue' = queue
               /\ gk'[g].didPut = gk[g].didPut /\ ~gk'[g].didSend
               /\ \A h \in Signals \ { g } : gk'[h] = gk[h]
       /\ gk[g].outcome = "failed" => gk'[g] = gk[g]
       /\ gk'[g].didSend => gk'[g].didPut]_vars

GatekeeperDropsWitness ==
  \E g \in Signals, h \in Signals :
    /\ g < h
    /\ gk[g].outcome = "failed" /\ ~gk[g].didPut
    /\ gk[h].outcome = "enqueued" /\ gk[h].documentId = gk[g].documentId

\* C20: immutable identity fields.  A record that exists exists in every
\* later state, and its documentId, s3Key and uploadTime keep their values
\* under every step of every component.
IdentityFields == { "documentId", "s3Key", "uploadTime" }

ImmutableIdentityFields ==
  [][\A id \in DOMAIN table :
       /\ id \in DOMAIN table'
       /\ \A attr \in IdentityFields :
            has(table[id], attr)
              => has(table'[id], attr) /\ table'[id][attr] = table[id][attr]]_vars

\* C21: identity derivation with fallback.  The identity the Gatekeeper
\* works with is the third segment of the decoded key when the key has the
\* shape uploads/<source>/<documentId>/<fileName> with a non-empty third
\* segment, and a freshly minted identity in every other case.
IdentityDerivation ==
  [][\A g \in Signals :
       (gk[g].pc = "idle" /\ gk'[g].pc = "check")
         => LET s3Key == decodeKey(gk'[g].key)
            IN IF wellShaped(s3Key) /\ thirdSegment(s3Key) # << >>
               THEN gk'[g].documentId = thirdSegment(s3Key) /\ uuids' = uuids
               ELSE /\ uuids' = uuids + 1
                    /\ gk'[g].documentId = << UuidNames[uuids'] >>
                    /\ gk'[g].documentId \notin DOMAIN table]_vars

\* C22: upload path contract.  A valid upload request mints an identity no
\* record and no other request has, with the key uploads/api/<id>/<fileName>;
\* its record write stores exactly {documentId, s3Key, status UPLOADED,
\* uploadTime} under that identity and enqueues nothing; a failed record
\* write ends the request with an error and nothing enqueued; the enqueue
\* adds exactly one message {documentId, s3Key} with the record's values;
\* and the request returns its identity only after both have succeeded.
UploadContract ==
  [][\A u \in Uploads :
       LET id == up'[u].documentId
           key == << "uploads", "/", "api", "/" >> \o id \o << "/" >> \o up'[u].fileName
       IN /\ (up[u].pc = "idle" /\ up'[u].pc = "put")
               => /\ id # << >> /\ id \notin DOMAIN table
                  /\ \A v \in Uploads \ { u } : up[v].documentId # id
                  /\ up'[u].s3Key = key
                  /\ table' = table /\ queue' = queue
          /\ (up[u].pc = "put" /\ up'[u].pc = "send")
               => /\ DOMAIN table' = DOMAIN table \cup { id }
                  /\ \A other \in DOMAIN table : table'[other] = table[other]
                  /\ DOMAIN table'[id] = { "documentId", "s3Key", "status", "uploadTime" }
                  /\ table'[id].documentId = id
                  /\ table'[id].s3Key = key
                  /\ table'[id].status = "UPLOADED"
                  /\ queue' = queue
          /\ (up[u].pc = "put" /\ up'[u].pc = "done")
               => /\ up'[u].outcome = "threw" /\ ~up'[u].didSend
                  /\ table' = table /\ queue' = queue
          /\ (up[u].pc = "send" /\ up'[u].pc = "done")
               => /\ table' = table /\ up[u].didPut /\ id = up[u].documentId
                  /\ IF up'[u].outcome = "returned"
                     THEN queue' = queue (+) SetToBag({ << << "documentId", id >>,
                                                          << "s3Key", key >> >> })
                     ELSE up'[u].outcome = "threw" /\ queue' = queue
          /\ up'[u].outcome = "returned" => up'[u].didPut /\ up'[u].didSend
          /\ up[u].pc = "done" => up'[u] = up[u]]_vars

UploadContractWitness ==
  \E u \in Uploads :
    /\ up[u].outcome = "returned"
    /\ statusOf(up[u].documentId) = "UPLOADED"
    /\ table[up[u].documentId].s3Key = up[u].s3Key
    /\ BagIn(stringify(up[u].documentId, up[u].s3Key), queue)

\* C23: text flattening.  The text an execution holds after the OCR call,
\* and hands to entity recognition, is the texts of the LINE blocks of the
\* OCR answer in their order with one space between neighbours; blocks of
\* other kinds add nothing, a LINE without Text adds the empty string, and
\* an answer without blocks gives the empty text.
lineBlocks(r) ==
  IF "Blocks" \in DOMAIN r
  THEN SelectSeq(r.Blocks, LAMBDA block : block.BlockType = "LINE")
  ELSE << >>

flattened(r) ==
  [i \in 1..(2 * Len(lineBlocks(r)) - 1) |->
     IF i % 2 = 0 THEN " "
     ELSE LET block == lineBlocks(r)[(i + 1) \div 2]
          IN IF "Text" \in DOMAIN block THEN block.Text ELSE ""]

TextFlattening ==
  [][\A e \in Execs :
       /\ (wk[e].pc = "ocr" /\ wk'[e].pc = "entities")
            => /\ wk'[e].fullText = flattened(wk'[e].textractResult)
               /\ Len(lineBlocks(wk'[e].textractResult)) = 0 => wk'[e].fullText = << >>
       /\ (wk[e].pc = "entities" /\ wk'[e].pc = "complete")
            => wk'[e].comprehendEntities = detectedEntities(wk[e].fullText).Entities]_vars

TextFlatteningWitness ==
  \E e \in Execs :
    /\ wk[e].pc = "complete"
    /\ has(wk[e].textractResult, "Blocks")
    /\ Len(wk[e].textractResult.Blocks) = 3
    /\ wk[e].fullText = << "Invoice", " ", "#42" >>

\* C24: worker step ordering.  An execution enters each step only from the
\* step before it in the order idempotency read, PROCESSING write, fetch,
\* OCR call, entity call, PROCESSED write; while it is at a dependency call
\* or at the PROCESSED write, the PROCESSING write is its one write so far;
\* PROCESSING is written only by the PROCESSING-write step, PROCESSED only
\* by the final step and ERROR only by the catch block; and over its whole
\* life an execution makes at most one terminal write.
stepOrder == << "read", "mark", "fetch", "ocr", "entities", "complete" >>

writeSequences ==
  { << >>, << "PROCESSING" >>, << "ERROR" >>,
    << "PROCESSING", "PROCESSED" >>, << "PROCESSING", "ERROR" >> }

WorkerStepOrdering ==
  [][\A e \in Execs :
       /\ \A i \in 1..Len(stepOrder) :
            (wk'[e].pc = stepOrder[i] /\ wk[e].pc # stepOrder[i])
              => \/ i > 1 /\ wk[e].pc = stepOrder[i - 1]
                 \/ wk[e].pc = "idle" /\ stepOrder[i] = firstStep
       /\ wk'[e].pc \in { "fetch", "ocr", "entities", "complete" }
            => wk'[e].writes = << "PROCESSING" >>
       /\ wk'[e].writes # wk[e].writes
            => \/ wk[e].pc = "mark" /\ wk'[e].writes = Append(wk[e].writes, "PROCESSING")
               \/ wk[e].pc = "complete" /\ wk'[e].writes = Append(wk[e].writes, "PROCESSED")
               \/ wk[e].pc = "catch" /\ wk'[e].writes = Append(wk[e].writes, "ERROR")
       /\ wk'[e].writes \in writeSequences]_vars

WorkerStepOrderingWitness ==
  /\ workerImpl = "checked"
  /\ \E e \in Execs : wk[e].outcome = "processed" /\ wk[e].writes = << "PROCESSING", "PROCESSED" >>
  /\ \E e \in Execs : wk[e].outcome = "error" /\ wk[e].writes = << "PROCESSING", "ERROR" >>

\* C25: executions end in a terminal record.  Every execution that is past
\* the idempotency check (or in the catch block) eventually ends; the step
\* that ends it with its terminal write leaves the record PROCESSED or
\* ERROR; and when an ended execution that was not stopped by validation or
\* by the idempotency check is the only one for its identity, its record is
\* in PROCESSING only if the execution was abandoned or its error-recording
\* write failed.
only(e) ==
  \A f \in Execs \ { e } : wk[f].pc = "idle" \/ wk[f].documentId # wk[e].documentId

ExecutionsEndTerminal ==
  /\ \A e \in Execs : (wk[e].pc \in underWay \cup { "catch" }) ~> (wk[e].pc = "done")
  /\ [][\A e \in Execs :
          (wk[e].pc # "done" /\ wk'[e].pc = "done" /\ wk'[e].writes # wk[e].writes)
            => /\ wk'[e].outcome \in { "processed", "error" }
               /\ statusIn(table', wk[e].documentId)
                    = (IF wk'[e].outcome = "processed" THEN "PROCESSED" ELSE "ERROR")]_vars
  /\ [](\A e \in Execs :
          (/\ wk[e].pc = "done"
           /\ wk[e].outcome \notin { "invalid", "skipped" }
           /\ only(e)
           /\ statusOf(wk[e].documentId) = "PROCESSING")
            => wk[e].outcome \in { "abandoned", "unrecorded" })

ExecutionsEndTerminalWitness ==
  /\ workerImpl = "checked"
  /\ \E e \in Execs :
        /\ wk[e].pc = "done" /\ only(e)
        /\ wk[e].writes = << "PROCESSING", "PROCESSED" >>
        /\ wk[e].outcome = "processed" /\ statusOf(wk[e].documentId) = "PROCESSED"

\* C26: request implies record.  Every request in the dispatch queue, and
\* every request an execution under way was started with, names an identity
\* that has a record in the store, and the request's s3Key is that record's
\* s3Key.
recorded(documentId, s3Key) ==
  /\ documentId \in DOMAIN table
  /\ has(table[documentId], "s3Key")
  /\ table[documentId].s3Key = s3Key

RequestImpliesRecord ==
  /\ \A body \in BagToSet(queue) :
        recorded(parseField(body, "documentId"), parseField(body, "s3Key"))
  /\ \A e \in Execs :
        wk[e].pc \notin { "idle", "done" } => recorded(wk[e].documentId, wk[e].s3Key)

\* C27: upload-path documents get processed.  When an execution for a
\* document issued by the upload path has failed at the fetch because the
\* blob was not yet stored, the step that records ERROR leaves something
\* that will process the document again: a request for it in the queue or
\* another execution for it under way.
fetchedTooEarly(e) ==
  /\ wk[e].pc = "catch"
  /\ wk[e].raisedBy = "service"
  /\ wk[e].writes = << "PROCESSING" >>
  /\ wk[e].s3Key \notin blobs
  /\ \E u \in Uploads :
        /\ up[u].outcome = "returned"
        /\ up[u].documentId = wk[e].documentId
        /\ up[u].s3Key = wk[e].s3Key

UploadGetsProcessed ==
  [][\A e \in Execs :
       (fetchedTooEarly(e) /\ wk'[e].outcome = "error")
         => \/ \E body \in BagToSet(queue') :
                  parseField(body, "documentId") = wk[e].documentId
            \/ \E f \in Execs \ { e } :
                  /\ wk'[f].documentId = wk[e].documentId
                  /\ wk'[f].pc \notin { "idle", "done" }]_vars

====
